---- MODULE Spec2Model ----
(***************************************************************************)
(* storymonitor: the Controller (sched/sched.go), the heartbeat task, one  *)
(* EVM checker (evm) and one CometBFT checker (cometbft), each with the    *)
(* node it watches as its environment.  A handler of a select loop is one  *)
(* action; the outcome of every call to a node is chosen by the            *)
(* environment.                                                            *)
(***************************************************************************)
EXTENDS Integers, Sequences, FiniteSets, TLC

\* The attempts of one kind (checker, type, result) a run makes, at most.
MaxDials == 2

\* The heartbeat ticks counted after a block, at most.
MaxTicks == 2

\* Replaced live WebSocket handles the model counts before it stops
\* letting a further replacement succeed.
MaxLeaked == 1

Checkers == {"evm", "cmt"}

\* The longest list of entries of one protocol in a NodeConfig.
MaxEntries == 2

\* The check_second values of an entry run from -MaxCheckSecond to
\* MaxCheckSecond + 1.
MaxCheckSecond == 2

\* The clock and the block timestamps run from 0 to MaxClock.
MaxClock == 3

\* The Start() calls that launch, at most.
MaxStarts == 2

\* The default interval of a checker's ticker, in seconds.
DefaultSeconds == 5

VARIABLES
    stopped,    \* Controller.stopped
    cancelled,  \* Controller.ctx is done (cancel() was called)
    wg,         \* Controller.wg counter
    startPc,    \* the Start() call that passed the stopped check
    stopPc,     \* the Stop() call that passed the stopped check
    done,       \* Stop()'s done channel is closed
    hbPc,       \* the UpdateBlockLifetime goroutine
    pc,         \* the startChecker goroutine of each checker
    WsURL,      \* conf.Evm.WsURL: "" or "ws"
    HttpURL,    \* conf.Evm.HttpURL: "http" (dialable) or "bad" (not dialable)
    ws,         \* EvmCheckerImpl.ws: "nil", "live", "dead"
    http,       \* EvmCheckerImpl.http: "nil", "set"
    sub,        \* subscribe()'s local sub: "nil", "active", "broken"
    leaked,     \* live ws handles overwritten without Close()
    hcPc,       \* the clientHealthCheck goroutine
    client,     \* CometbftCheckerImpl.client
    eventCh,    \* subscribe()'s local eventCh: "nil", "open"
    batch,      \* what the last step emitted (observations and log lines)
    config,     \* the NodeConfig of main.go: its Evm and Cometbft entries
    validated,  \* what validateConfig(config) returned
    checkers,   \* Controller.checkers as NewController built it
    CheckSecond,\* the check_second of a checker's entry
    interval,   \* the interval of the checker's ticker, in seconds
    now,        \* time.Now().Unix()
    delay,      \* the block processing delay gauge of each checker
    starts,     \* how many times Start() launched the tasks
    dialled,    \* the connection attempts made, by type and by how they ended
    RPCConnectionAttempts,\* the counter base.RPCConnectionAttempts
    NodeInfo,   \* the identity of each checker: the entry's fields and BaseChecker's
    BlockLastUpdateTime,\* the gauge base.BlockLastUpdateTime, by series
    ticks,      \* the heartbeat ticks since the checker's last block, and whether it had one
    stats       \* what the last GetStats() call returned

ctlVars == <<stopped, cancelled, wg, startPc, stopPc, done>>
confVars == <<WsURL, HttpURL>>
evmVars == <<ws, http, sub, leaked>>
cmtVars == <<client, eventCh>>
setupVars == <<config, validated, checkers>>
tickerVars == <<CheckSecond, interval>>
clockVars == <<now, delay>>
connVars == <<dialled, RPCConnectionAttempts>>
infoVars == <<NodeInfo>>
gaugeVars == <<BlockLastUpdateTime, ticks>>
statsVars == <<stats>>
auxVars == <<setupVars, tickerVars, clockVars, connVars, infoVars, gaugeVars, statsVars, starts>>
runVars == <<stopped, cancelled, wg, startPc, stopPc, done, hbPc, pc,
             WsURL, HttpURL, ws, http, sub, leaked, hcPc,
             client, eventCh, batch>>
vars == <<runVars, auxVars>>

----------------------------------------------------------------------------
\* base.BaseChecker: the observations

RecordConnectionAttempt(w, connectionType, success) ==
    <<w, "conn", connectionType, IF success THEN "success" ELSE "fail">>

UpdateLastBlockTime(w) == <<w, "last_block", "set 0">>

RecordBlockProcessingDelay(w) == <<w, "delay">>

HealthCheckOperation(w, endpointType, ok) ==
    << <<w, "health", endpointType, IF ok THEN "1" ELSE "0">>,
       <<w, "response_time", endpointType>> >>

----------------------------------------------------------------------------
\* evm.EvmCheckerImpl

EvmState == [ws |-> ws, http |-> http, sub |-> sub, leaked |-> leaked,
             out |-> <<>>]

Logged(s, line) == [s EXCEPT !.out = Append(@, <<"log", line>>)]

\* updateClient: dial ws when WsURL is set, then dial http when HttpURL is
\* set.  A failed ws dial leaves chain.ws as it was; chain.http is assigned
\* whatever the dial returned.  Neither old handle is closed.
updateClient(s, wsOk) ==
    LET a == IF WsURL = "" THEN s
             ELSE IF wsOk
                  THEN [s EXCEPT
                          !.ws = "live",
                          !.leaked = @ + (IF s.ws = "live" THEN 1 ELSE 0),
                          !.out = Append(@, RecordConnectionAttempt("evm", "ws", TRUE))]
                  ELSE [s EXCEPT
                          !.out = Append(@, RecordConnectionAttempt("evm", "ws", FALSE))]
    IN  IF HttpURL = "" THEN a
        ELSE IF HttpURL = "http"
             THEN [a EXCEPT
                     !.http = "set",
                     !.out = Append(@, RecordConnectionAttempt("evm", "http", TRUE))]
             ELSE [a EXCEPT
                     !.http = "nil",
                     !.out = Append(@, RecordConnectionAttempt("evm", "http", FALSE))]

\* subscribeNewHead: fails without a ws handle, else asks the node.
subscribeNewHead(s, subOk) ==
    IF s.ws = "live" /\ subOk THEN [s EXCEPT !.sub = "active"]
    ELSE [s EXCEPT !.sub = "nil"]

\* An ensureSubscription that dials again whatever the ChainID probe said.
ensureSubscriptionRedial(s, o) ==
    LET a == IF s.ws = "nil" THEN updateClient(s, o[1]) ELSE s
        b == IF a.ws # "nil" THEN updateClient(a, o[3]) ELSE a
    IN  IF b.ws # "nil" /\ b.sub = "nil" THEN subscribeNewHead(b, o[4]) ELSE b

\* The closure ensureSubscription of subscribe().  o = <<first dial, ChainID
\* probe, second dial, subscribe>>, the outcomes of the calls it may make.
\* A ChainID probe that fails is logged, and updateClient() dials again.
ensureSubscription(s, o) ==
    LET a == IF s.ws = "nil" THEN updateClient(s, o[1]) ELSE s
        b == IF a.ws # "nil" /\ ~(a.ws = "live" /\ o[2])
             THEN updateClient(Logged(a, "WebSocket health check failed"), o[3])
             ELSE a
    IN  IF b.ws # "nil" /\ b.sub = "nil" THEN subscribeNewHead(b, o[4]) ELSE b

\* The outcomes of a call that carries chain.ctx: it fails once the context
\* is cancelled, and before that the node decides.
CallOk == IF cancelled THEN {FALSE} ELSE BOOLEAN

Outcomes == CallOk \X CallOk \X CallOk \X CallOk

\* The checker's fields and locals take the values of s, within the bound.
EvmBecomes(s) ==
    /\ s.leaked <= MaxLeaked
    /\ ws' = s.ws
    /\ http' = s.http
    /\ sub' = s.sub
    /\ leaked' = s.leaked
    /\ batch' = s.out

----------------------------------------------------------------------------
\* cometbft.CometbftCheckerImpl: updateClient

\* An updateClient that records the attempt once rpchttp.New has returned.
cmtUpdateClientEarly(s, newOk, statusOk) ==
    IF ~newOk
    THEN [s EXCEPT !.out = Append(@, RecordConnectionAttempt("cmt", "http", FALSE))]
    ELSE [s EXCEPT !.client = IF statusOk THEN "new" ELSE "unverified",
                   !.out = Append(@, RecordConnectionAttempt("cmt", "http", TRUE))]

\* cometbft updateClient: rpchttp.New, chain.client = client, then Status.
\* A failed Status records a failed attempt and returns; chain.client keeps
\* the client ("unverified").
cmtUpdateClient(s, newOk, statusOk) ==
    IF ~newOk
    THEN [s EXCEPT !.out = Append(@, RecordConnectionAttempt("cmt", "http", FALSE))]
    ELSE IF ~statusOk
         THEN [s EXCEPT !.client = "unverified",
                        !.out = Append(@, RecordConnectionAttempt("cmt", "http", FALSE))]
         ELSE [s EXCEPT !.client = "new",
                        !.out = Append(@, RecordConnectionAttempt("cmt", "http", TRUE))]

----------------------------------------------------------------------------
\* main.go and sched.NewController: the configuration and the construction

\* A nil pointer in a list of entries.
NilEntry == [nil |-> TRUE, HostName |-> "", HttpURL |-> "", ChainName |-> ""]

\* The entries: nil, complete, or with one required field left empty.
Entries ==
    {NilEntry}
    \cup {[nil |-> FALSE, HostName |-> h, HttpURL |-> u, ChainName |-> c] :
            <<h, u, c>> \in {<<"host", "url", "chain">>, <<"", "url", "chain">>,
                             <<"host", "", "chain">>, <<"host", "url", "">>}}

EntryLists == UNION {[1..n -> Entries] : n \in 0..MaxEntries}

Configs == [Evm : EntryLists, Cometbft : EntryLists]

\* One loop of validateConfig over a list: it dereferences every entry, and
\* returns at the first one that lacks a required field.
RECURSIVE validateEntries(_)
validateEntries(list) ==
    IF list = <<>> THEN "ok"
    ELSE IF Head(list).nil THEN "panic"
    ELSE IF Head(list).HostName = "" \/ Head(list).HttpURL = ""
            \/ Head(list).ChainName = ""
         THEN "error"
         ELSE validateEntries(Tail(list))

\* validateConfig: the Evm loop, then the Cometbft loop.
validateConfig(c) ==
    IF Len(c.Evm) = 0 /\ Len(c.Cometbft) = 0 THEN "error"
    ELSE IF validateEntries(c.Evm) # "ok" THEN validateEntries(c.Evm)
    ELSE validateEntries(c.Cometbft)

\* A loop of NewController that stops at the first nil entry.
RECURSIVE buildStopAtNil(_, _, _)
buildStopAtNil(proto, list, i) ==
    IF i > Len(list) \/ list[i].nil THEN <<>>
    ELSE <<[proto |-> proto, entry |-> i]>> \o buildStopAtNil(proto, list, i + 1)

\* One loop of NewController over a list: a nil entry is skipped, any other
\* entry gets its checker, appended to c.checkers.
RECURSIVE buildCheckers(_, _, _)
buildCheckers(proto, list, i) ==
    IF i > Len(list) THEN <<>>
    ELSE (IF list[i].nil THEN <<>> ELSE <<[proto |-> proto, entry |-> i]>>)
         \o buildCheckers(proto, list, i + 1)

\* NewController: the EVM checkers, then the CometBFT checkers.
NewController(c) ==
    buildCheckers("evm", c.Evm, 1) \o buildCheckers("cmt", c.Cometbft, 1)

\* The configuration of the runs below: one entry of each protocol, built.
RunConfig ==
    [Evm |-> <<[nil |-> FALSE, HostName |-> "host", HttpURL |-> "url", ChainName |-> "chain"]>>,
     Cometbft |-> <<[nil |-> FALSE, HostName |-> "host", HttpURL |-> "url", ChainName |-> "chain"]>>]

SetupDone ==
    /\ config = RunConfig
    /\ validated = "ok"
    /\ checkers = [built |-> TRUE, list |-> NewController(RunConfig)]

\* base.CheckSecondToTicker: the interval of the ticker, in seconds.
CheckSecondToTickerRaw(checkSecond, defaultSeconds) == checkSecond

CheckSecondToTicker(checkSecond, defaultSeconds) ==
    IF checkSecond <= 0 THEN defaultSeconds ELSE checkSecond

TickerIdle ==
    /\ CheckSecond = [w \in Checkers |->
                        [yaml |-> DefaultSeconds, field |-> DefaultSeconds, built |-> TRUE]]
    /\ interval = [w \in Checkers |-> <<>>]

\* The delay a block handler computes from the clock and the header's time.
delaySecond(N, T) == N - T

ClockIdle ==
    /\ now = 0
    /\ delay = [w \in Checkers |-> {}]

\* The label sets of base.RPCConnectionAttempts: the checker, the
\* connection type and the result.
ConnKeys == Checkers \X {"ws", "http"} \X {"success", "fail"}

ConnIdle ==
    /\ dialled = [k \in ConnKeys |-> 0]
    /\ RPCConnectionAttempts = [k \in ConnKeys |-> 0]

\* The chain_id and node_version of an entry: absent from the file, or what
\* the node reports.
ChainIds == {"", "1"}
NodeVersions == {"", "v1"}

\* NewEvmCheckerImpl, NewCometbftCheckerImpl: the checker embeds the entry,
\* whose fields the accessors return, and a BaseChecker built from the same
\* five fields, which the emissions take their labels from.
NewNodeInfo(w, id, ver) ==
    LET e == [ChainName |-> "chain", HostName |-> "host", ProtocolName |-> w,
              ChainId |-> id, NodeVersion |-> ver]
    IN  [Entry |-> e, BaseChecker |-> e]

\* An evm updateClient that asks for the chain id and the version whatever
\* the http dial returned.
evmNodeInfoUnchecked(n, httpOk, netOk, verOk) ==
    [n EXCEPT !.Entry.ChainId = IF netOk THEN "1" ELSE @,
              !.BaseChecker.ChainId = IF netOk THEN "1" ELSE @,
              !.Entry.NodeVersion = IF verOk THEN "v1" ELSE @,
              !.BaseChecker.NodeVersion = IF verOk THEN "v1" ELSE @]

\* evm updateClient, after a successful http dial: NetworkID sets both
\* ChainId fields when it succeeds, web3_clientVersion both NodeVersion
\* fields when it succeeds.
evmNodeInfo(n, httpOk, netOk, verOk) ==
    IF ~httpOk THEN n
    ELSE [n EXCEPT !.Entry.ChainId = IF netOk THEN "1" ELSE @,
                   !.BaseChecker.ChainId = IF netOk THEN "1" ELSE @,
                   !.Entry.NodeVersion = IF verOk THEN "v1" ELSE @,
                   !.BaseChecker.NodeVersion = IF verOk THEN "v1" ELSE @]

\* cometbft updateClient: a successful Status sets the four fields from
\* result.NodeInfo.
cmtNodeInfo(n, newOk, statusOk) ==
    IF ~(newOk /\ statusOk) THEN n
    ELSE [n EXCEPT !.Entry.ChainId = "1", !.BaseChecker.ChainId = "1",
                   !.Entry.NodeVersion = "v1", !.BaseChecker.NodeVersion = "v1"]

InfoIdle == NodeInfo = [w \in Checkers |-> NewNodeInfo(w, "", "")]

\* What the accessors of checker w return, and the label values its own
\* emissions carry.
Accessors(w) == NodeInfo[w].Entry
LabelValuesWithInfo(w) == NodeInfo[w].BaseChecker

\* The series of base.BlockLastUpdateTime: chain_name, hostname, chain_id,
\* node_version, protocol_name.  The two names are the same for every series.
Series == Checkers \X ChainIds \X NodeVersions

SeriesOf(e) == <<e.ProtocolName, e.ChainId, e.NodeVersion>>

\* No GetStats() call was made.
StatsIdle == stats = <<>>

GaugeIdle ==
    /\ BlockLastUpdateTime = [s \in Series |-> 0]
    /\ ticks = [w \in Checkers |-> [n |-> 0, block |-> FALSE]]

----------------------------------------------------------------------------
\* sched.Controller

Init ==
    /\ stopped = FALSE
    /\ cancelled = FALSE
    /\ wg = 0
    /\ startPc = "none"
    /\ stopPc = "none"
    /\ done = FALSE
    /\ hbPc = "idle"
    /\ pc = [w \in Checkers |-> "idle"]
    /\ WsURL \in {"", "ws"}
    /\ HttpURL \in {"http", "bad"}
    \* NewEvmCheckerImpl calls updateClient on the zero value
    /\ \E wsOk \in BOOLEAN :
         LET s == updateClient([ws |-> "nil", http |-> "nil", sub |-> "nil",
                                leaked |-> 0, out |-> <<>>], wsOk)
         IN  ws = s.ws /\ http = s.http
    /\ sub = "nil"
    /\ leaked = 0
    /\ hcPc = "idle"
    \* NewCometbftCheckerImpl calls updateClient on the zero value
    /\ \E newOk \in BOOLEAN, statusOk \in BOOLEAN :
         client = cmtUpdateClient([client |-> "nil", eventCh |-> "nil",
                                   err |-> FALSE, out |-> <<>>],
                                  newOk, statusOk).client
    /\ eventCh = "nil"
    /\ batch = <<>>
    /\ SetupDone
    /\ TickerIdle
    /\ ClockIdle
    /\ ConnIdle
    /\ InfoIdle
    /\ GaugeIdle
    /\ StatsIdle
    /\ starts = 0

\* A Start() without the stopped check.
StartUnguarded ==
    /\ startPc = "none"
    /\ startPc' = "launch"
    /\ batch' = <<>>
    /\ UNCHANGED <<stopped, cancelled, wg, stopPc, done, hbPc, pc, hcPc>>
    /\ UNCHANGED <<confVars, evmVars, cmtVars>>
    /\ UNCHANGED auxVars

\* Start(): the stopped check under the mutex.  The callers call Start()
\* on a Controller that is not stopped once (main.go:178).
Start ==
    /\ stopped \/ startPc = "none"
    /\ IF stopped
       THEN /\ batch' = << <<"log", "Controller is already stopped, cannot start">> >>
            /\ UNCHANGED startPc
       ELSE /\ startPc' = "launch"
            /\ batch' = <<>>
    /\ UNCHANGED <<stopped, cancelled, wg, stopPc, done, hbPc, pc, hcPc>>
    /\ UNCHANGED <<confVars, evmVars, cmtVars>>
    /\ UNCHANGED auxVars

\* Start(): wg.Add(1) and go, for UpdateBlockLifetime and for every checker.
StartLaunch ==
    /\ startPc = "launch"
    /\ startPc' = "done"
    /\ wg' = wg + 1 + Cardinality(Checkers)
    /\ hbPc' = "running"
    /\ pc' = [w \in Checkers |-> "launched"]
    /\ batch' = << <<"log", "All checkers started">> >>
    /\ UNCHANGED <<stopped, cancelled, stopPc, done, hcPc>>
    /\ UNCHANGED <<confVars, evmVars, cmtVars>>
    /\ UNCHANGED auxVars

\* Stop(): the stopped check and set under the mutex.
Stop ==
    /\ IF stopped
       THEN /\ batch' = << <<"log", "Controller is already stopped">> >>
            /\ UNCHANGED <<stopped, stopPc>>
       ELSE /\ stopped' = TRUE
            /\ stopPc' = "cancel"
            /\ batch' = <<>>
    /\ UNCHANGED <<cancelled, wg, startPc, done, hbPc, pc, hcPc>>
    /\ UNCHANGED <<confVars, evmVars, cmtVars>>
    /\ UNCHANGED auxVars

\* Stop(): c.cancel(), then the goroutine that waits on wg is started.
StopCancel ==
    /\ stopPc = "cancel"
    /\ cancelled' = TRUE
    /\ stopPc' = "wait"
    /\ batch' = <<>>
    /\ UNCHANGED <<stopped, wg, startPc, done, hbPc, pc, hcPc>>
    /\ UNCHANGED <<confVars, evmVars, cmtVars>>
    /\ UNCHANGED auxVars

\* Stop()'s goroutine: c.wg.Wait() returns, close(done).
WaiterDone ==
    /\ stopPc = "wait"
    /\ ~done
    /\ wg = 0
    /\ done' = TRUE
    /\ batch' = <<>>
    /\ UNCHANGED <<stopped, cancelled, wg, startPc, stopPc, hbPc, pc, hcPc>>
    /\ UNCHANGED <<confVars, evmVars, cmtVars>>
    /\ UNCHANGED auxVars

\* Stop(): case <-done.
StopReturn ==
    /\ stopPc = "wait"
    /\ done
    /\ stopPc' = "stopped"
    /\ batch' = << <<"log", "All checkers stopped successfully">> >>
    /\ UNCHANGED <<stopped, cancelled, wg, startPc, done, hbPc, pc, hcPc>>
    /\ UNCHANGED <<confVars, evmVars, cmtVars>>
    /\ UNCHANGED auxVars

\* A select in Stop() that has the done case alone.
StopNoTimeout ==
    /\ stopPc = "wait"
    /\ done
    /\ stopPc' = "stopped"
    /\ batch' = <<>>
    /\ UNCHANGED <<stopped, cancelled, wg, startPc, done, hbPc, pc, hcPc>>
    /\ UNCHANGED <<confVars, evmVars, cmtVars>>
    /\ UNCHANGED auxVars

\* Stop(): case <-time.After(30 * time.Second).
StopTimeout ==
    /\ stopPc = "wait"
    /\ stopPc' = "timeout"
    /\ batch' = << <<"log", "Timeout waiting for checkers to stop">> >>
    /\ UNCHANGED <<stopped, cancelled, wg, startPc, done, hbPc, pc, hcPc>>
    /\ UNCHANGED <<confVars, evmVars, cmtVars>>
    /\ UNCHANGED auxVars

\* UpdateBlockLifetime: case <-ticker.C.
HbTick ==
    /\ hbPc = "running"
    /\ batch' = << <<"evm", "last_block", "inc">>, <<"cmt", "last_block", "inc">> >>
    /\ UNCHANGED <<ctlVars, hbPc, pc, hcPc, confVars, evmVars, cmtVars>>
    /\ UNCHANGED auxVars

\* UpdateBlockLifetime: case <-c.ctx.Done(), with the deferred wg.Done().
HbCtxDone ==
    /\ hbPc = "running"
    /\ cancelled
    /\ hbPc' = "returned"
    /\ wg' = wg - 1
    /\ batch' = <<>>
    /\ UNCHANGED <<stopped, cancelled, startPc, stopPc, done, pc, hcPc>>
    /\ UNCHANGED <<confVars, evmVars, cmtVars>>
    /\ UNCHANGED auxVars

\* startChecker: checker.Start() returned; the deferred wg.Done().
startCheckerReturn(w, how) ==
    /\ pc' = [pc EXCEPT ![w] = how]
    /\ wg' = wg - 1
    /\ hbPc' = hbPc

\* A panic that no frame recovers ends the process, every goroutine with it.
startCheckerNoRecover(w) ==
    /\ pc' = [v \in Checkers |-> IF v = w THEN "panicked" ELSE "crashed"]
    /\ wg' = wg
    /\ hbPc' = "crashed"

\* A startChecker whose wg.Done() is not deferred: the panic skips it.
startCheckerRecoverNoDone(w) ==
    /\ pc' = [pc EXCEPT ![w] = "panicked"]
    /\ wg' = wg
    /\ hbPc' = hbPc

\* startChecker: checker.Start() panicked; the deferred recover() and then
\* the deferred wg.Done().
startCheckerRecover(w) ==
    /\ pc' = [pc EXCEPT ![w] = "panicked"]
    /\ wg' = wg - 1
    /\ hbPc' = hbPc

----------------------------------------------------------------------------
\* evm.EvmCheckerImpl: Start(), subscribe() and clientHealthCheck()

\* subscribe(): back at the select after a handler.  The select evaluates
\* sub.Err() on entry; sub is a nil interface after a failed or absent
\* subscription, and the call panics.
EvmLoop(s) ==
    /\ EvmBecomes(IF s.sub = "nil" THEN Logged(s, "Checker panic recovered") ELSE s)
    /\ IF s.sub = "nil"
       THEN startCheckerRecover("evm")
       ELSE /\ pc' = [pc EXCEPT !["evm"] = "select"]
            /\ UNCHANGED <<wg, hbPc>>

\* startChecker logs and calls Start(): go clientHealthCheck(), then
\* subscribe() up to its select: the first ensureSubscription().
EvmStart ==
    /\ pc["evm"] = "launched"
    /\ hcPc' = "running"
    /\ \E s \in {ensureSubscription(Logged(EvmState, "Starting checker"), o) :
                   o \in Outcomes} : EvmLoop(s)
    /\ UNCHANGED <<stopped, cancelled, startPc, stopPc, done>>
    /\ UNCHANGED <<confVars, cmtVars>>
    /\ UNCHANGED auxVars

\* subscribe(): case <-chain.ctx.Done(): sub.Unsubscribe() and return.  The
\* ws and http handles are left as they are.
EvmCtxDone ==
    /\ pc["evm"] = "select"
    /\ cancelled
    /\ sub' = "nil"
    /\ startCheckerReturn("evm", "cancelled")
    /\ batch' = <<>>
    /\ UNCHANGED <<stopped, cancelled, startPc, stopPc, done, hcPc>>
    /\ UNCHANGED <<ws, http, leaked, confVars, cmtVars>>
    /\ UNCHANGED auxVars

\* subscribe(): case header := <-headers with a header, up to the call
\* chain.http.BlockNumber(chain.ctx) that checkGetBlockByNumber makes inside
\* HealthCheckOperation.  With a nil chain.http the call dereferences it and
\* panics; otherwise the handler waits for the node's answer.
EvmHeader ==
    /\ pc["evm"] = "select"
    /\ sub = "active"
    /\ batch' = <<UpdateLastBlockTime("evm"), RecordBlockProcessingDelay("evm")>>
    /\ IF http = "nil"
       THEN startCheckerRecover("evm")
       ELSE /\ pc' = [pc EXCEPT !["evm"] = "probing"]
            /\ UNCHANGED <<wg, hbPc>>
    /\ UNCHANGED <<stopped, cancelled, startPc, stopPc, done, hcPc>>
    /\ UNCHANGED <<confVars, evmVars, cmtVars>>
    /\ UNCHANGED auxVars

\* BlockNumber returned, with the node's answer or with the context's error:
\* HealthCheckOperation records both observations, and the handler is back
\* at the select.
EvmProbeDone ==
    /\ pc["evm"] = "probing"
    /\ \E ok \in CallOk : batch' = HealthCheckOperation("evm", "block_retrieval", ok)
    /\ pc' = [pc EXCEPT !["evm"] = "select"]
    /\ UNCHANGED <<stopped, cancelled, wg, startPc, stopPc, done, hbPc, hcPc>>
    /\ UNCHANGED <<confVars, evmVars, cmtVars>>
    /\ UNCHANGED auxVars

\* A handler that only drops the subscription and leaves the reconnect to
\* the next tick.
EvmDropOnly(s, wsOk, o) == [s EXCEPT !.sub = "nil"]

\* The handler of a lost subscription, after its log line: sub.Unsubscribe(),
\* sub = nil, updateClient(), ensureSubscription().
EvmResubscribe(s, wsOk, o) ==
    ensureSubscription(updateClient([s EXCEPT !.sub = "nil"], wsOk), o)

\* subscribe(): case header := <-headers with header == nil.
EvmNilHeader ==
    /\ pc["evm"] = "select"
    /\ sub = "active"
    /\ \E s \in {EvmResubscribe(Logged(EvmState, "Received nil header"), wsOk, o) :
                   wsOk \in CallOk, o \in Outcomes} : EvmLoop(s)
    /\ UNCHANGED <<stopped, cancelled, startPc, stopPc, done, hcPc>>
    /\ UNCHANGED <<confVars, cmtVars>>
    /\ UNCHANGED auxVars

\* subscribe(): case <-ticker.C.
EvmTick ==
    /\ pc["evm"] = "select"
    /\ \E s \in {ensureSubscription(EvmState, o) : o \in Outcomes} : EvmLoop(s)
    /\ UNCHANGED <<stopped, cancelled, startPc, stopPc, done, hcPc>>
    /\ UNCHANGED <<confVars, cmtVars>>
    /\ UNCHANGED auxVars

\* subscribe(): case err, ok := <-sub.Err() with an error or a closed channel.
EvmSubErr ==
    /\ pc["evm"] = "select"
    /\ sub = "broken"
    /\ \E s \in {EvmResubscribe(Logged(EvmState, "Subscription error"), wsOk, o) :
                   wsOk \in CallOk, o \in Outcomes} : EvmLoop(s)
    /\ UNCHANGED <<stopped, cancelled, startPc, stopPc, done, hcPc>>
    /\ UNCHANGED <<confVars, cmtVars>>
    /\ UNCHANGED auxVars

\* clientHealthCheck: the ticker fired; with a nil chain.http it enters
\* updateClient(), on its own goroutine.
HcTick ==
    /\ hcPc = "running"
    /\ IF http = "nil"
       THEN /\ hcPc' = "updating"
            /\ batch' = << <<"log", "rebuilding chain client">> >>
       ELSE /\ batch' = << <<"log", "connection normal">> >>
            /\ UNCHANGED hcPc
    /\ UNCHANGED <<ctlVars, hbPc, pc, confVars, evmVars, cmtVars>>
    /\ UNCHANGED auxVars

\* clientHealthCheck: its updateClient() has dialled and assigns the handles.
HcUpdateDone ==
    /\ hcPc = "updating"
    /\ \E wsOk \in CallOk : EvmBecomes(updateClient(EvmState, wsOk))
    /\ hcPc' = "running"
    /\ UNCHANGED <<ctlVars, hbPc, pc, confVars, cmtVars>>
    /\ UNCHANGED auxVars

\* clientHealthCheck: WaitForContextOrTicker returned false.
HcCtxDone ==
    /\ hcPc = "running"
    /\ cancelled
    /\ hcPc' = "returned"
    /\ batch' = <<>>
    /\ UNCHANGED <<ctlVars, hbPc, pc, confVars, evmVars, cmtVars>>
    /\ UNCHANGED auxVars

\* The node or the network: the subscription fails, its Err() channel
\* yields an error or is closed.
EvmSubBreaks ==
    /\ pc["evm"] \in {"select", "probing"}
    /\ sub = "active"
    /\ sub' = "broken"
    /\ batch' = <<>>
    /\ UNCHANGED <<ctlVars, hbPc, pc, hcPc, confVars, cmtVars>>
    /\ UNCHANGED <<ws, http, leaked>>
    /\ UNCHANGED auxVars

\* The node or the network: the WebSocket connection is lost.
EvmConnDrops ==
    /\ pc["evm"] \in {"launched", "select", "probing"}
    /\ ws = "live"
    /\ ws' = "dead"
    /\ batch' = <<>>
    /\ UNCHANGED <<ctlVars, hbPc, pc, hcPc, confVars, cmtVars>>
    /\ UNCHANGED <<http, sub, leaked>>
    /\ UNCHANGED auxVars

----------------------------------------------------------------------------
\* cometbft.CometbftCheckerImpl

CmtState == [client |-> client, eventCh |-> eventCh, err |-> FALSE, out |-> <<>>]

\* startAndSubscribe: no client, client.Start() failed, Subscribe failed,
\* or the event channel.
startAndSubscribe(s, startOk, subOk) ==
    IF s.client = "nil" THEN [s EXCEPT !.eventCh = "nil", !.err = TRUE]
    ELSE IF ~(startOk /\ s.client \in {"new", "unverified", "dead"})
         THEN [s EXCEPT !.eventCh = "nil", !.err = TRUE]
         ELSE IF ~subOk
              THEN [s EXCEPT !.client = "running", !.eventCh = "nil", !.err = TRUE]
              ELSE [s EXCEPT !.client = "running", !.eventCh = "open", !.err = FALSE]

\* subscribe()'s deferred cleanup: UnsubscribeAll, OnStop and Stop on a
\* client that is not nil.  A client that was started is stopped and its
\* connection closed; one that never started has nothing to close.
CmtCleanup(s) ==
    IF s.client \in {"nil", "new", "unverified"} THEN [s EXCEPT !.eventCh = "nil"]
    ELSE [s EXCEPT !.client = "stopped", !.eventCh = "nil"]

\* startChecker logs and calls Start(): subscribe() up to its select.  A
\* failed first subscription makes subscribe() return, through the deferred
\* cleanup.
CmtStart ==
    /\ pc["cmt"] = "launched"
    /\ \E startOk \in BOOLEAN, subOk \in CallOk :
         LET s == startAndSubscribe(CmtState, startOk, subOk)
         IN  IF s.err
             THEN /\ client' = CmtCleanup(s).client
                  /\ eventCh' = CmtCleanup(s).eventCh
                  /\ startCheckerReturn("cmt", "failed")
                  /\ batch' = << <<"log", "Starting checker">>,
                                 <<"log", "Initial subscription failed">> >>
             ELSE /\ client' = s.client
                  /\ eventCh' = s.eventCh
                  /\ pc' = [pc EXCEPT !["cmt"] = "select"]
                  /\ batch' = << <<"log", "Starting checker">> >>
                  /\ UNCHANGED <<wg, hbPc>>
    /\ UNCHANGED <<stopped, cancelled, startPc, stopPc, done, hcPc>>
    /\ UNCHANGED <<confVars, evmVars>>
    /\ UNCHANGED auxVars

\* A ctx.Done() case that leaves the select and not the loop.
CmtCtxDoneBreak ==
    /\ pc["cmt"] = "select"
    /\ cancelled
    /\ batch' = << <<"log", "Received stop signal">> >>
    /\ UNCHANGED <<ctlVars, hbPc, pc, hcPc, confVars, evmVars, cmtVars>>
    /\ UNCHANGED auxVars

\* subscribe(): case <-chain.ctx.Done(): return, through the deferred cleanup.
CmtCtxDone ==
    /\ pc["cmt"] = "select"
    /\ cancelled
    /\ client' = CmtCleanup(CmtState).client
    /\ eventCh' = CmtCleanup(CmtState).eventCh
    /\ startCheckerReturn("cmt", "cancelled")
    /\ batch' = <<>>
    /\ UNCHANGED <<stopped, cancelled, startPc, stopPc, done, hcPc>>
    /\ UNCHANGED <<confVars, evmVars>>
    /\ UNCHANGED auxVars

\* subscribe(): case event := <-eventCh with a new block header, up to the
\* call chain.client.Status(chain.ctx) that checkStatus makes inside
\* HealthCheckOperation.
CmtEvent ==
    /\ pc["cmt"] = "select"
    /\ eventCh = "open"
    /\ client = "running"
    /\ batch' = <<UpdateLastBlockTime("cmt"), RecordBlockProcessingDelay("cmt")>>
    /\ pc' = [pc EXCEPT !["cmt"] = "probing"]
    /\ UNCHANGED <<ctlVars, hbPc, hcPc, confVars, evmVars, cmtVars>>
    /\ UNCHANGED auxVars

\* Status returned, with the node's answer or with the context's error.
CmtProbeDone ==
    /\ pc["cmt"] = "probing"
    /\ \E ok \in CallOk : batch' = HealthCheckOperation("cmt", "node_status", ok)
    /\ pc' = [pc EXCEPT !["cmt"] = "select"]
    /\ UNCHANGED <<ctlVars, hbPc, hcPc, confVars, evmVars, cmtVars>>
    /\ UNCHANGED auxVars

\* subscribe(): case <-ticker.C.
CmtTick ==
    /\ pc["cmt"] = "select"
    /\ IF client = "nil"
       THEN \E newOk \in BOOLEAN, statusOk \in CallOk, startOk \in BOOLEAN, subOk \in CallOk :
              LET s == startAndSubscribe(cmtUpdateClient(CmtState, newOk, statusOk),
                                         startOk, subOk)
              IN  /\ client' = s.client
                  /\ eventCh' = s.eventCh
                  /\ batch' = IF s.err
                              THEN Append(s.out, <<"log", "subscription failed">>)
                              ELSE s.out
       ELSE IF client # "running"
            THEN \E startOk \in BOOLEAN, subOk \in CallOk :
                   LET s == startAndSubscribe(CmtState, startOk, subOk)
                   IN  /\ client' = s.client
                       /\ eventCh' = s.eventCh
                       /\ batch' = IF s.err
                                   THEN << <<"log", "subscription failed">> >>
                                   ELSE <<>>
            ELSE /\ batch' = <<>>
                 /\ UNCHANGED cmtVars
    /\ UNCHANGED <<ctlVars, hbPc, pc, hcPc, confVars, evmVars>>
    /\ UNCHANGED auxVars

\* The node or the network: the client's connection is lost and the client
\* reports that it is not running.
CmtConnDrops ==
    /\ pc["cmt"] \in {"select", "probing"}
    /\ client = "running"
    /\ client' = "dead"
    /\ batch' = <<>>
    /\ UNCHANGED <<ctlVars, hbPc, pc, hcPc, confVars, evmVars, eventCh>>
    /\ UNCHANGED auxVars

----------------------------------------------------------------------------
\* The block handlers and the clock

\* The Controller and the checkers as constructed, with nothing started.
RunIdle ==
    /\ stopped = FALSE
    /\ cancelled = FALSE
    /\ wg = 0
    /\ startPc = "none"
    /\ stopPc = "none"
    /\ done = FALSE
    /\ hbPc = "idle"
    /\ pc = [w \in Checkers |-> "idle"]
    /\ WsURL = "ws"
    /\ HttpURL = "http"
    /\ ws = "nil"
    /\ http = "set"
    /\ sub = "nil"
    /\ leaked = 0
    /\ hcPc = "idle"
    /\ client = "new"
    /\ eventCh = "nil"
    /\ batch = <<>>

ClockInit ==
    /\ RunIdle
    /\ SetupDone
    /\ TickerIdle
    /\ now \in 0..MaxClock
    /\ delay = [w \in Checkers |-> {}]
    /\ ConnIdle
    /\ InfoIdle
    /\ GaugeIdle
    /\ StatsIdle
    /\ starts = 0

\* The local clock advances by a second.
ClockTick ==
    /\ now < MaxClock
    /\ now' = now + 1
    /\ UNCHANGED <<runVars, setupVars, tickerVars, delay, connVars, infoVars, gaugeVars, statsVars, starts>>

\* A block handler of checker w, for a header whose time is T:
\* delaySecond := time.Now().Unix() - T; RecordBlockProcessingDelay sets the
\* gauge (and feeds the histogram) with it.
BlockEvent(w) ==
    /\ \E T \in 0..MaxClock :
         delay' = [delay EXCEPT
                     ![w] = {[now |-> now, time |-> T, value |-> delaySecond(now, T)]}]
    /\ UNCHANGED <<runVars, setupVars, tickerVars, now, connVars, infoVars, gaugeVars, statsVars, starts>>

ClockNext ==
    \/ ClockTick
    \/ \E w \in Checkers : BlockEvent(w)

ClockSpec == ClockInit /\ [][ClockNext]_vars

----------------------------------------------------------------------------
\* The tickers of a checker

\* The tickers a checker makes: subscribe() one, and the EVM checker's
\* clientHealthCheck() another.
Tickers(w) == IF w = "evm" THEN 2 ELSE 1

TickerInit ==
    /\ RunIdle
    /\ SetupDone
    /\ ClockIdle
    /\ ConnIdle
    /\ InfoIdle
    /\ GaugeIdle
    /\ StatsIdle
    /\ starts = 0
    /\ CheckSecond \in [Checkers ->
                          {[yaml |-> v, field |-> v, built |-> FALSE] :
                             v \in (0 - MaxCheckSecond)..(MaxCheckSecond + 1)}]
    /\ interval = [w \in Checkers |-> <<>>]

\* NewEvmCheckerImpl, NewCometbftCheckerImpl: a check_second of 0 (absent
\* from the file, or 0) becomes 5.  The field is the entry's own.
NewCheckerImpl(w) ==
    /\ ~CheckSecond[w].built
    /\ CheckSecond' = [CheckSecond EXCEPT
                         ![w].field = IF @ = 0 THEN DefaultSeconds ELSE @,
                         ![w].built = TRUE]
    /\ UNCHANGED <<runVars, setupVars, interval, clockVars, connVars, infoVars, gaugeVars, statsVars, starts>>

\* subscribe(), clientHealthCheck(): base.CheckSecondToTicker(chain.CheckSecond, 5).
NewTicker(w) ==
    /\ CheckSecond[w].built
    /\ Len(interval[w]) < Tickers(w)
    /\ interval' = [interval EXCEPT
                      ![w] = Append(@, CheckSecondToTicker(CheckSecond[w].field,
                                                           DefaultSeconds))]
    /\ UNCHANGED <<runVars, setupVars, CheckSecond, clockVars, connVars, infoVars, gaugeVars, statsVars, starts>>

TickerNext ==
    \/ \E w \in Checkers : NewCheckerImpl(w)
    \/ \E w \in Checkers : NewTicker(w)

TickerSpec == TickerInit /\ [][TickerNext]_vars

----------------------------------------------------------------------------
\* Start-up: loadConf and NewController

SetupInit ==
    /\ RunIdle
    /\ TickerIdle
    /\ ClockIdle
    /\ ConnIdle
    /\ InfoIdle
    /\ GaugeIdle
    /\ StatsIdle
    /\ starts = 0
    /\ config \in Configs
    /\ validated = "none"
    /\ checkers = [built |-> FALSE, list |-> <<>>]

\* loadConf: validateConfig(&ac) on the parsed file.
LoadConf ==
    /\ validated = "none"
    /\ validated' = validateConfig(config)
    /\ UNCHANGED <<runVars, config, checkers, tickerVars, clockVars, connVars, infoVars, gaugeVars, statsVars, starts>>

\* sched.NewController(ctx, conf): main calls it on a configuration that
\* validateConfig accepted, any other caller on the configuration it has.
BuildController ==
    /\ ~checkers.built
    /\ checkers' = [built |-> TRUE, list |-> NewController(config)]
    /\ UNCHANGED <<runVars, config, validated, tickerVars, clockVars, connVars, infoVars, gaugeVars, statsVars, starts>>

\* GetStats(): the map it returns.  It reads c.checkers, c.stopped (under
\* the read lock) and c.conf, and writes nothing.
GetStats ==
    /\ checkers.built
    /\ stats' = <<[total_checkers |-> Len(checkers.list),
                   stopped |-> stopped,
                   evm_checkers |-> Len(config.Evm),
                   cometbft_checkers |-> Len(config.Cometbft)]>>
    /\ UNCHANGED <<runVars, setupVars, tickerVars, clockVars, connVars, infoVars, gaugeVars, starts>>

SetupNext ==
    \/ LoadConf
    \/ BuildController
    \/ GetStats

SetupSpec == SetupInit /\ [][SetupNext]_vars

----------------------------------------------------------------------------
\* The Controller under any sequence of Start() and Stop() calls.  The tasks
\* are counted, not followed: wg is what they have left to report.

CallsInit ==
    /\ RunIdle
    /\ SetupDone
    /\ TickerIdle
    /\ ClockIdle
    /\ ConnIdle
    /\ InfoIdle
    /\ GaugeIdle
    /\ StatsIdle
    /\ starts = 0

\* Start(), called whenever no other Start() call is under way: the stopped
\* check under the mutex.  Nothing records that the tasks were launched.
StartCall ==
    /\ startPc \in {"none", "done"}
    /\ IF stopped
       THEN /\ batch' = << <<"log", "Controller is already stopped, cannot start">> >>
            /\ UNCHANGED startPc
       ELSE /\ starts < MaxStarts
            /\ startPc' = "launch"
            /\ batch' = <<>>
    /\ UNCHANGED <<stopped, cancelled, wg, stopPc, done, hbPc, pc, hcPc>>
    /\ UNCHANGED <<confVars, evmVars, cmtVars>>
    /\ UNCHANGED auxVars

\* Start(): wg.Add(1) and go, for UpdateBlockLifetime and for every checker.
LaunchTasks ==
    /\ startPc = "launch"
    /\ startPc' = "done"
    /\ wg' = wg + 1 + Len(checkers.list)
    /\ starts' = starts + 1
    /\ batch' = << <<"log", "All checkers started">> >>
    /\ UNCHANGED <<stopped, cancelled, stopPc, done, hbPc, pc, hcPc>>
    /\ UNCHANGED <<confVars, evmVars, cmtVars>>
    /\ UNCHANGED <<setupVars, tickerVars, clockVars, connVars, infoVars, gaugeVars, statsVars>>

\* A launched task ends: the deferred wg.Done() of startChecker or of
\* UpdateBlockLifetime.
TaskReturns ==
    /\ wg > 0
    /\ wg' = wg - 1
    /\ batch' = <<>>
    /\ UNCHANGED <<stopped, cancelled, startPc, stopPc, done, hbPc, pc, hcPc>>
    /\ UNCHANGED <<confVars, evmVars, cmtVars>>
    /\ UNCHANGED auxVars

CallsNext ==
    \/ GetStats
    \/ StartCall
    \/ LaunchTasks
    \/ TaskReturns
    \/ Stop
    \/ StopCancel
    \/ WaiterDone
    \/ StopReturn
    \/ StopTimeout

CallsSpec == CallsInit /\ [][CallsNext]_vars

----------------------------------------------------------------------------
\* The connection attempts and their counter

ConnInit ==
    /\ stopped = FALSE
    /\ cancelled = FALSE
    /\ wg = 0
    /\ startPc = "none"
    /\ stopPc = "none"
    /\ done = FALSE
    /\ hbPc = "idle"
    /\ pc = [w \in Checkers |-> "idle"]
    /\ WsURL \in {"", "ws"}
    /\ HttpURL \in {"", "http", "bad"}
    /\ ws = "nil"
    /\ http = "nil"
    /\ sub = "nil"
    /\ leaked = 0
    /\ hcPc = "idle"
    /\ client = "nil"
    /\ eventCh = "nil"
    /\ batch = <<>>
    /\ SetupDone
    /\ TickerIdle
    /\ ClockIdle
    /\ ConnIdle
    /\ \E id \in [Checkers -> ChainIds], ver \in [Checkers -> NodeVersions] :
         NodeInfo = [w \in Checkers |-> NewNodeInfo(w, id[w], ver[w])]
    /\ GaugeIdle
    /\ StatsIdle
    /\ starts = 0

\* RecordConnectionAttempt for every attempt of a batch: .Add(1) on the
\* counter of its labels.
Recorded(out) ==
    [k \in ConnKeys |->
        Cardinality({i \in 1..Len(out) : out[i] = <<k[1], "conn", k[2], k[3]>>})]

\* The attempts as the environment saw them.
Dialled(made) == [k \in ConnKeys |-> IF k \in made THEN 1 ELSE 0]

Result(ok) == IF ok THEN "success" ELSE "fail"

\* evm updateClient(), from the constructor or from a loop: the ws dial the
\* node answers, the http dial the URL decides, and after it the node
\* answers NetworkID and web3_clientVersion or not.
EvmUpdateClient ==
    /\ \A k \in ConnKeys : k[1] = "evm" => dialled[k] < MaxDials
    /\ \E wsOk \in BOOLEAN, netOk \in BOOLEAN, verOk \in BOOLEAN :
         LET s == updateClient(EvmState, wsOk)
             made == (IF WsURL # "" THEN {<<"evm", "ws", Result(wsOk)>>} ELSE {})
                     \cup (IF HttpURL # ""
                           THEN {<<"evm", "http", Result(HttpURL = "http")>>}
                           ELSE {})
         IN  /\ EvmBecomes(s)
             /\ NodeInfo' = [NodeInfo EXCEPT
                               !["evm"] = evmNodeInfo(@, HttpURL = "http", netOk, verOk)]
             /\ RPCConnectionAttempts' =
                    [k \in ConnKeys |-> RPCConnectionAttempts[k] + Recorded(s.out)[k]]
             /\ dialled' = [k \in ConnKeys |-> dialled[k] + Dialled(made)[k]]
    /\ UNCHANGED <<ctlVars, hbPc, pc, hcPc, confVars, cmtVars>>
    /\ UNCHANGED <<setupVars, tickerVars, clockVars, starts, gaugeVars, statsVars>>

\* cometbft updateClient(): rpchttp.New and the Status call are one attempt.
CmtUpdateClient ==
    /\ \A k \in ConnKeys : k[1] = "cmt" => dialled[k] < MaxDials
    /\ \E newOk \in BOOLEAN, statusOk \in BOOLEAN :
         LET s == cmtUpdateClient(CmtState, newOk, statusOk)
             made == {<<"cmt", "http", Result(newOk /\ statusOk)>>}
         IN  /\ client' = s.client
             /\ batch' = s.out
             /\ NodeInfo' = [NodeInfo EXCEPT
                               !["cmt"] = cmtNodeInfo(@, newOk, statusOk)]
             /\ RPCConnectionAttempts' =
                    [k \in ConnKeys |-> RPCConnectionAttempts[k] + Recorded(s.out)[k]]
             /\ dialled' = [k \in ConnKeys |-> dialled[k] + Dialled(made)[k]]
    /\ UNCHANGED <<ctlVars, hbPc, pc, hcPc, confVars, evmVars, eventCh>>
    /\ UNCHANGED <<setupVars, tickerVars, clockVars, starts, gaugeVars, statsVars>>

ConnNext ==
    \/ EvmUpdateClient
    \/ CmtUpdateClient

ConnSpec == ConnInit /\ [][ConnNext]_vars

----------------------------------------------------------------------------
\* The last-block gauge: the block handlers and the heartbeat

GaugeInit ==
    /\ RunIdle
    /\ SetupDone
    /\ TickerIdle
    /\ ClockIdle
    /\ ConnIdle
    /\ GaugeIdle
    /\ StatsIdle
    /\ starts = 0
    /\ \E id \in [Checkers -> ChainIds], ver \in [Checkers -> NodeVersions] :
         NodeInfo = [w \in Checkers |-> NewNodeInfo(w, id[w], ver[w])]

\* A block handler of checker w: UpdateLastBlockTime() sets the series of
\* BaseChecker's label values to 0.
LastBlockSet(w) ==
    /\ BlockLastUpdateTime' =
          [BlockLastUpdateTime EXCEPT ![SeriesOf(LabelValuesWithInfo(w))] = 0]
    /\ ticks' = [ticks EXCEPT ![w] = [n |-> 0, block |-> TRUE]]
    /\ UNCHANGED <<runVars, setupVars, tickerVars, clockVars, connVars, infoVars, statsVars, starts>>

\* UpdateBlockLifetime: case <-ticker.C: for every checker, .Inc() on the
\* series of the values its accessors return.
LastBlockInc ==
    /\ \A w \in Checkers : ticks[w].n < MaxTicks
    /\ BlockLastUpdateTime' =
          [s \in Series |->
              BlockLastUpdateTime[s]
              + (IF \E w \in Checkers : s = SeriesOf(Accessors(w)) THEN 1 ELSE 0)]
    /\ ticks' = [w \in Checkers |-> [ticks[w] EXCEPT !.n = @ + 1]]
    /\ UNCHANGED <<runVars, setupVars, tickerVars, clockVars, connVars, infoVars, statsVars, starts>>

\* The EVM checker's loop calls updateClient() (a failed ChainID probe, a nil
\* header, a subscription error) and the node answers NetworkID and
\* web3_clientVersion or not.  The CometBFT checker's loop never reaches its
\* updateClient(): its identity is the constructor's.
LoopUpdateClient ==
    /\ \E netOk \in BOOLEAN, verOk \in BOOLEAN :
         NodeInfo' = [NodeInfo EXCEPT !["evm"] = evmNodeInfo(@, TRUE, netOk, verOk)]
    /\ UNCHANGED <<runVars, setupVars, tickerVars, clockVars, connVars, gaugeVars, statsVars, starts>>

GaugeNext ==
    \/ \E w \in Checkers : LastBlockSet(w)
    \/ LastBlockInc
    \/ LoopUpdateClient

GaugeSpec == GaugeInit /\ [][GaugeNext]_vars

----------------------------------------------------------------------------
Next ==
    \/ Start
    \/ StartLaunch
    \/ Stop
    \/ StopCancel
    \/ WaiterDone
    \/ StopReturn
    \/ StopTimeout
    \/ HbTick
    \/ HbCtxDone
    \/ EvmStart
    \/ EvmCtxDone
    \/ EvmHeader
    \/ EvmProbeDone
    \/ EvmNilHeader
    \/ EvmTick
    \/ EvmSubErr
    \/ HcTick
    \/ HcUpdateDone
    \/ HcCtxDone
    \/ EvmSubBreaks
    \/ EvmConnDrops
    \/ CmtStart
    \/ CmtCtxDone
    \/ CmtEvent
    \/ CmtProbeDone
    \/ CmtTick
    \/ CmtConnDrops

Spec == Init /\ [][Next]_vars

\* The scheduling of Stop(): its own steps run, and its timer fires.  No
\* checker is assumed to make a step.
FairStop ==
    /\ Init /\ [][Next]_vars
    /\ WF_vars(StopCancel)
    /\ WF_vars(StopTimeout)

\* The scheduling of the goroutines: each one runs, and a select whose
\* ctx.Done() case is ready again and again takes it.  A call that carries
\* chain.ctx returns once the context is cancelled; before that, whether the
\* node ever answers is the node's choice.
FairSpec ==
    /\ Init /\ [][Next]_vars
    /\ WF_vars(StartLaunch)
    /\ WF_vars(StopCancel)
    /\ WF_vars(EvmStart)
    /\ WF_vars(CmtStart)
    /\ SF_vars(EvmCtxDone)
    /\ SF_vars(CmtCtxDone)
    /\ SF_vars(HbCtxDone)
    /\ WF_vars(cancelled /\ EvmProbeDone)
    /\ WF_vars(cancelled /\ CmtProbeDone)

----------------------------------------------------------------------------
\* C1: a Stop() call that passed the stopped check returns, by the done
\* channel or by its 30 second timer, whether or not the checkers exit.
C1_StopReturns == stopped ~> (stopPc \in {"stopped", "timeout"})

\* C2: once the context is cancelled, every checker task and the heartbeat
\* task that ran, or that a pending Start() still launches, has exited.
AllTasksExited ==
    /\ startPc # "launch"
    /\ \A w \in Checkers : pc[w] \notin {"launched", "select", "probing"}
    /\ hbPc # "running"

C2_TasksExitAfterCancel == cancelled ~> AllTasksExited

C1_Witness ==
    /\ stopPc = "timeout"
    /\ \E w \in Checkers : pc[w] = "select"

C2_Witness ==
    /\ cancelled
    /\ AllTasksExited
    /\ \A w \in Checkers : pc[w] = "cancelled"
    /\ hbPc = "returned"

\* C3: the step in which a checker's Start() panics changes that checker's
\* task alone: the other checker's task and the heartbeat task are where
\* they were, and the Controller is neither stopped nor cancelled by it.
C3_FaultContained ==
    [][\A w \in Checkers :
         (pc[w] # "panicked" /\ pc'[w] = "panicked") =>
            /\ \A v \in Checkers \ {w} : pc'[v] = pc[v]
            /\ hbPc' = hbPc
            /\ UNCHANGED <<stopped, cancelled, cmtVars>>]_vars

\* the CometBFT checker finishes processing a block after the EVM checker
\* panicked
C3_Witness ==
    /\ pc["evm"] = "panicked"
    /\ pc["cmt"] = "select"
    /\ hbPc = "running"
    /\ ~cancelled
    /\ batch = HealthCheckOperation("cmt", "node_status", TRUE)

ControllerUntouched ==
    UNCHANGED <<stopped, cancelled, wg, startPc, stopPc, done, hbPc, pc, hcPc>>

\* C4: once stopped is true it stays true, and a Start() or a Stop() called
\* then changes nothing of the Controller or of its tasks: no launch, no
\* cancel, no wait.
C4_StopStartGuarded ==
    [][stopped => /\ stopped'
                  /\ Start => ControllerUntouched
                  /\ Stop => ControllerUntouched]_vars

\* Start() was called after Stop() had returned
C4_Witness ==
    /\ stopPc \in {"stopped", "timeout"}
    /\ batch = << <<"log", "Controller is already stopped, cannot start">> >>

Started(w) == pc[w] \notin {"idle", "launched"}

NeverConnected(w) ==
    IF w = "evm" THEN ws = "nil" ELSE client \in {"nil", "new", "unverified"}

Subscribed(w) ==
    IF w = "evm" THEN sub = "active" ELSE eventCh = "open" /\ client = "running"

\* C5: a checker whose connection attempts all failed is not subscribed
\* and, unless cancelled, is in its loop, where the next tick retries.
C5_RetriesUntilCancelled ==
    \A w \in Checkers :
        (Started(w) /\ NeverConnected(w) /\ ~cancelled) =>
            (pc[w] = "select" /\ ~Subscribed(w))

\* C6: a checker's Start() has returned only if the context is cancelled
\* (a panic apart).
C6_ReturnsOnlyOnCancel ==
    \A w \in Checkers : pc[w] \in {"failed", "cancelled"} => cancelled

\* C7: a step taken while the EVM checker's subscription is broken and the
\* context is not cancelled leaves the checker in its loop, the one place
\* where it can subscribe again once the node is reachable.
C7_StaysToHeal ==
    [][(pc["evm"] = "select" /\ sub = "broken" /\ ~cancelled) =>
          pc'["evm"] = "select"]_vars

IsWsAttempt(e) == Len(e) = 4 /\ e[1] = "evm" /\ e[2] = "conn" /\ e[3] = "ws"

\* C8: the step that takes a failed subscription off the EVM checker's
\* loop (the handler of sub.Err()) makes a WebSocket connection attempt.
C8_ReconnectsInSameStep ==
    [][(sub = "broken" /\ sub' # "broken" /\ pc'["evm"] # "cancelled") =>
          \E i \in 1..Len(batch') : IsWsAttempt(batch'[i])]_vars

\* the handler of sub.Err() ran and dialled
C8_Witness ==
    /\ Len(batch) >= 2
    /\ batch[1] = <<"log", "Subscription error">>
    /\ IsWsAttempt(batch[2])
    /\ pc["evm"] = "select"
    /\ sub = "active"

OpenWs == (IF ws = "live" THEN 1 ELSE 0) + leaked

\* C9: the EVM checker holds at most one open WebSocket connection to its
\* endpoint: a handle it replaces was closed first.  (The CometBFT checker
\* has one client field and restarts that same client.)
C9_OneConnection == OpenWs <= 1

\* C10: a checker whose Start() returned on cancellation holds no open
\* connection and no subscription.
C10_ReleasedOnCancel ==
    /\ pc["evm"] = "cancelled" => (OpenWs = 0 /\ sub = "nil")
    /\ pc["cmt"] = "cancelled" => (client # "running" /\ eventCh = "nil")

\* C11: the delay recorded for a block is never negative, and is the clock
\* minus the block's time whenever the block's time is not ahead of the
\* clock.
C11_DelayClamped ==
    \A w \in Checkers : \A r \in delay[w] :
        /\ r.value >= 0
        /\ r.time <= r.now => r.value = r.now - r.time

WellFormed(list) == {i \in DOMAIN list : ~list[i].nil}

Built(proto, i) ==
    {k \in DOMAIN checkers.list : checkers.list[k] = [proto |-> proto, entry |-> i]}

\* C13: NewController builds one checker for every entry that is not nil and
\* none for a nil entry: N + M checkers for N EVM and M CometBFT entries that
\* are not nil, wherever the nil entries stand.
C13_OneWatcherPerEntry ==
    checkers.built =>
        /\ Len(checkers.list) = Cardinality(WellFormed(config.Evm))
                                + Cardinality(WellFormed(config.Cometbft))
        /\ \A i \in WellFormed(config.Evm) : Cardinality(Built("evm", i)) = 1
        /\ \A i \in WellFormed(config.Cometbft) : Cardinality(Built("cmt", i)) = 1

\* a nil entry ahead of an entry that is not nil, and a CometBFT entry
C13_Witness ==
    /\ checkers.built
    /\ Len(config.Evm) = 2
    /\ config.Evm[1].nil
    /\ ~config.Evm[2].nil
    /\ Len(config.Cometbft) = 1
    /\ ~config.Cometbft[1].nil
    /\ Len(checkers.list) = 2

Valid(e) == ~e.nil /\ e.HostName # "" /\ e.HttpURL # "" /\ e.ChainName # ""

AllEntries == {config.Evm[i] : i \in DOMAIN config.Evm}
                 \cup {config.Cometbft[i] : i \in DOMAIN config.Cometbft}

\* C18: a configuration (without nil entries) is accepted exactly when at
\* least one of its entries has every required field: an entry that lacks
\* one does not make the load fail while another entry is valid.
C18_SkipAndWarn ==
    (validated # "none" /\ \A e \in AllEntries : ~e.nil) =>
        (validated = "ok" <=> \E e \in AllEntries : Valid(e))

HasObs(b, w, kind) == \E i \in 1..Len(b) : b[i][1] = w /\ b[i][2] = kind

\* The step in which a probe of checker w ends: the call returned, or the
\* handler that had just recorded the delay panicked inside the probe.
ProbeEnds(w) ==
    \/ pc[w] = "probing" /\ pc'[w] # "probing"
    \/ pc[w] = "select" /\ pc'[w] = "panicked" /\ HasObs(batch', w, "delay")

\* C14: the step in which a health probe ends records a health observation
\* and a response-time observation.
C14_ProbeRecordsBoth ==
    [][\A w \in Checkers :
         ProbeEnds(w) => /\ HasObs(batch', w, "health")
                         /\ HasObs(batch', w, "response_time")]_vars

\* C15: once Stop() has returned by its done channel, every task Start()
\* launches has exited, and Start() has none left to launch.
C15_StopWaitsForAll == stopPc = "stopped" => AllTasksExited

\* C16: while clientHealthCheck is inside updateClient(), no step of the
\* same checker's subscribe() makes a connection attempt.
C16_NoOverlap ==
    [][(hcPc = "updating" /\ hcPc' = "updating") => ~HasObs(batch', "evm", "conn")]_vars

\* C17: over any sequence of Start() and Stop() calls the tasks are launched
\* at most once: one Start() of each checker, one heartbeat task.
C17_LaunchedOnce ==
    /\ starts <= 1
    /\ wg <= 1 + Len(checkers.list)

\* C19: a client whose status check failed right after rpchttp.New is not
\* the client the checker starts and subscribes on.
C19_ProbeFailureAborts ==
    [][client = "unverified" => client' # "running"]_vars

\* C20: a probe that a block handler started returns, cancelled or not: the
\* checker is back at its select.
C20_ProbeReturns ==
    \A w \in Checkers : (pc[w] = "probing") ~> (pc[w] # "probing")

Emits(b, e) == \E i \in 1..Len(b) : b[i] = e

\* The step in which checker w takes a block event off its select.
TakesBlock(w) == pc[w] = "select" /\ Emits(batch', UpdateLastBlockTime(w))

\* C21: the step that takes a block event emits one batch, the last-block
\* update and then the delay, and leaves the checker inside the one health
\* probe it issued.
C21_OneBatchPerBlock ==
    [][\A w \in Checkers :
         TakesBlock(w) =>
            /\ batch' = <<UpdateLastBlockTime(w), RecordBlockProcessingDelay(w)>>
            /\ pc'[w] = "probing"]_vars

\* C22: a tick taken without a live connection makes a connection attempt,
\* and a tick taken with a dead subscription makes a subscription attempt:
\* the EVM checker's failed subscription is replaced or dropped by the tick,
\* the CometBFT checker's client is running after it or the failure logged.
C22_TickResubscribes ==
    [][/\ (EvmTick /\ ws # "live") => HasObs(batch', "evm", "conn")
       /\ (EvmTick /\ sub = "broken") => sub' # "broken"
       /\ (CmtTick /\ client # "running") =>
             \/ client' = "running"
             \/ Emits(batch', <<"log", "subscription failed">>)]_vars

EndpointType(w) == IF w = "evm" THEN "block_retrieval" ELSE "node_status"

\* The step in which a probe of checker w ends without an answer.
ProbeFails(w) ==
    /\ ProbeEnds(w)
    /\ batch' # HealthCheckOperation(w, EndpointType(w), TRUE)

\* C24: the step in which a health probe fails records the failed health
\* observation and the response time and nothing else: no connection
\* attempt, the handles and the subscription as they were, and the checker
\* back at its select.
C24_ProbeFailureMetricsOnly ==
    [][\A w \in Checkers :
         ProbeFails(w) =>
            /\ batch' = HealthCheckOperation(w, EndpointType(w), FALSE)
            /\ UNCHANGED <<evmVars, cmtVars>>
            /\ pc'[w] = "select"]_vars

\* C25: the connection-attempt counter of every (checker, type, result) is
\* the number of attempts of that type that ended that way: one increment
\* per attempt, success for the attempt that succeeded (for the CometBFT
\* checker, rpchttp.New and the Status call after it).
C25_AttemptsCounted ==
    \A k \in ConnKeys : RPCConnectionAttempts[k] = dialled[k]

\* attempts of every kind were made: failed and successful, ws and http
C25_Witness ==
    /\ dialled[<<"evm", "ws", "fail">>] >= 1
    /\ dialled[<<"evm", "ws", "success">>] >= 1
    /\ dialled[<<"evm", "http", "success">>] >= 2
    /\ dialled[<<"cmt", "http", "fail">>] >= 2
    /\ dialled[<<"cmt", "http", "success">>] >= 1
    /\ client = "unverified"

Names(e) == <<e.ChainName, e.HostName, e.ProtocolName>>

C27_GaugeCountsTicks ==
    \A w \in Checkers :
        ticks[w].block =>
            BlockLastUpdateTime[SeriesOf(LabelValuesWithInfo(w))] = ticks[w].n

\* The checkers NewController built for a protocol.
BuiltFor(proto) ==
    Cardinality({k \in DOMAIN checkers.list : checkers.list[k].proto = proto})

\* C28: a GetStats() call changes nothing of the Controller, and the map it
\* returns has the stopped flag of the Controller, the number of checkers
\* built for each protocol, and their sum as the total.
C28_StatsSnapshot ==
    [][GetStats =>
         /\ UNCHANGED <<runVars, setupVars>>
         /\ stats'[1].stopped = stopped
         /\ stats'[1].evm_checkers = BuiltFor("evm")
         /\ stats'[1].cometbft_checkers = BuiltFor("cmt")
         /\ stats'[1].evm_checkers + stats'[1].cometbft_checkers
               = stats'[1].total_checkers]_vars

\* The tasks Start() launched that have not ended.
LiveTasks ==
    (IF hbPc = "running" THEN 1 ELSE 0)
    + Cardinality({w \in Checkers : pc[w] \in {"launched", "select", "probing"}})

\* C29: the WaitGroup counts the live tasks: a task that ended, by a return
\* or by a recovered panic, was counted down once, and the count is never
\* negative; with every task ended, one of them by a panic, Stop()'s wait is
\* over.
C29_DoneOncePerTask ==
    /\ wg = LiveTasks
    /\ wg >= 0
    /\ (AllTasksExited /\ \E w \in Checkers : pc[w] = "panicked") => wg = 0

\* the EVM checker panicked, and Stop() returned by its done channel
C29_Witness ==
    /\ pc["evm"] = "panicked"
    /\ pc["cmt"] = "cancelled"
    /\ hbPc = "returned"
    /\ stopPc = "stopped"
    /\ wg = 0

\* C30: the EVM checker's loop never reaches its select without a
\* subscription to take sub.Err() of, and never makes the block-number probe
\* without an http client: its task does not end in the nil dereference of
\* either.
C30_HandlesPresent == pc["evm"] # "panicked"

\* The EVM checker's Start() has returned, or ended in the recovered panic.
EvmStartEnded == pc["evm"] \in {"cancelled", "panicked"}

\* C31: clientHealthCheck does not outlive the EVM checker's Start(): it has
\* exited once Stop() has reported that all checkers stopped, and its
\* updateClient() records no connection attempt after Start() has ended.
C31_HealthTaskBounded ==
    /\ [](stopPc = "stopped" => hcPc \notin {"running", "updating"})
    /\ [][(EvmStartEnded /\ hcPc = "updating" /\ hcPc' = "running") =>
             ~HasObs(batch', "evm", "conn")]_vars

\* C32: a step that registers tasks in the WaitGroup (Start()'s wg.Add and
\* go) is taken only while the Controller is not stopped and no Stop() call
\* is under way: never after Stop() set the flag, never next to its Wait().
C32_LaunchAtomic ==
    [][wg' > wg => (~stopped /\ stopPc = "none")]_vars

====
